---- MODULE Spec2Model ----
(***************************************************************************)
(* Model of scripts/verify_google_purchase.py: a one-shot command line     *)
(* program that obtains Google credentials through workload identity       *)
(* federation and calls the Android Publisher API.                         *)
(*                                                                         *)
(* An invocation is one process.  Its state is the argument vector, the    *)
(* position in the script (pc), the locals of the running function, the    *)
(* process environment, what it has printed and its exit code.  Every      *)
(* outbound call is logged in calls; the answers of the outside world are  *)
(* logged in responses.  The variables are indexed by invocation so that   *)
(* two invocations can be compared on the same answers.                    *)
(***************************************************************************)
EXTENDS Integers, Sequences, FiniteSets, TLC

VARIABLES sys_argv, pc, func, args, token, credentials, environ,
          calls, responses, result, stdout, exitCode

vars == <<sys_argv, pc, func, args, token, credentials, environ,
          calls, responses, result, stdout, exitCode>>

(***************************************************************************)
(* Bounds and input alphabets                                              *)
(***************************************************************************)
\* Largest number of command line arguments after the script name.
MaxArgs == 5

\* Words a caller may pass on the command line.
Words == {"verify", "cancel", "acknowledge", "subscription", "product", "x"}

ScriptName == "verify_google_purchase.py"

ArgListsOfLen(n) == [1..n -> Words]

ArgLists == UNION {ArgListsOfLen(n) : n \in 0..MaxArgs}

\* An answer of the outside world: either the call raises (exc # ""), or it
\* returns a response with a status code and a body.  A body is a sequence of
\* lexical chunks; " " and "\n" are whitespace.
Raise(type, msg) == [exc |-> type, msg |-> msg, status |-> 0, text |-> <<>>]

Resp(status, text) == [exc |-> "", msg |-> "", status |-> status, text |-> text]

TokenResponses ==
    { Raise("ConnectTimeout", "metadata token request timed out"),
      Resp(200, <<"AQAEAF">>),
      Resp(403, <<"Forbidden">>) }

RegionResponses ==
    { Raise("ConnectionError", "metadata region request failed"),
      Resp(200, <<" ", "eu-west-1", "\n">>),
      Resp(401, <<"Unauthorized", "\n">>) }

RefreshResponses ==
    { Raise("RefreshError", "token exchange rejected"),
      Resp(200, <<"ya29">>) }

LookupResponses ==
    { Raise("ReadTimeout", "read timed out"),
      Resp(200, <<"{", "orderId", "}", "\n">>),
      Resp(200, <<"<html>">>),
      Resp(404, <<"{", "error", "}">>),
      Resp(500, <<"{", "error", "}">>) }

PostResponses ==
    { Raise("ReadTimeout", "read timed out"),
      Resp(200, <<"{", "}">>),
      Resp(204, <<>>),
      Resp(400, <<"{", "error", "}">>) }

(***************************************************************************)
(* Pure helpers                                                            *)
(***************************************************************************)
Whitespace == {" ", "\n"}

\* str.strip(): drop leading and trailing whitespace.
RECURSIVE LStrip(_)
LStrip(s) ==
    IF s # <<>> /\ Head(s) \in Whitespace THEN LStrip(Tail(s)) ELSE s

RECURSIVE RStrip(_)
RStrip(s) ==
    IF s # <<>> /\ s[Len(s)] \in Whitespace
    THEN RStrip(SubSeq(s, 1, Len(s) - 1))
    ELSE s

Strip(s) == LStrip(RStrip(s))

\* response.json(): the body decodes when, whitespace aside, it is an object
\* "{" member* "}"; the decoded value is the set of its members.  Anything
\* else raises JSONDecodeError.
JsonDecodes(text) ==
    LET t == Strip(text) IN
    /\ Len(t) >= 2
    /\ t[1] = "{"
    /\ t[Len(t)] = "}"
    /\ \A i \in 2..(Len(t) - 1) : t[i] \notin {"{", "}"} \cup Whitespace

JsonValue(text) ==
    LET t == Strip(text) IN {t[i] : i \in 2..(Len(t) - 1)}

JSONDecodeError == Raise("JSONDecodeError", "Expecting value")

\* sys.argv[i] (Python counts from 0, the script name is sys.argv[0]).
At(argv, i) == argv[i + 1]

Unbound == [unbound |-> TRUE]

UsageError(msg) ==
    [usage |-> TRUE, error |-> msg, func |-> "", args |-> <<>>]

CallOf(f, a, b, c) ==
    [usage |-> FALSE, error |-> "", func |-> f, args |-> <<a, b, c>>]

\* BackwardCompat accepting three or more positional arguments.
BackwardCompat_atLeastThree(argv) ==
    IF Len(argv) >= 4
    THEN CallOf("verify_purchase", At(argv, 1), At(argv, 2), At(argv, 3))
    ELSE UsageError("Unknown action: " \o At(argv, 1) \o ". Use 'verify' or 'cancel'.")

\* BackwardCompat passing the three arguments in rotated order.
BackwardCompat_rotated(argv) ==
    IF Len(argv) = 4
    THEN CallOf("verify_purchase", At(argv, 2), At(argv, 3), At(argv, 1))
    ELSE UsageError("Unknown action: " \o At(argv, 1) \o ". Use 'verify' or 'cancel'.")

\* The else branch of the dispatch: the first argument is none of verify,
\* cancel, acknowledge.  Three positional arguments are treated as verify.
BackwardCompat(argv) ==
    IF Len(argv) = 4
    THEN CallOf("verify_purchase", At(argv, 1), At(argv, 2), At(argv, 3))
    ELSE UsageError("Unknown action: " \o At(argv, 1) \o ". Use 'verify' or 'cancel'.")

\* The dispatch of the __main__ block: either a usage error (printed at
\* once) or the action function to run with its three arguments.
main(argv) ==
    IF Len(argv) < 2
    THEN UsageError("Usage: verify_google_purchase.py <verify|cancel> <package_name> <product_id> <purchase_token>")
    ELSE LET action == At(argv, 1) IN
      CASE action = "verify" ->
             IF Len(argv) # 5
             THEN UsageError("Usage: verify_google_purchase.py verify <package_name> <product_id> <purchase_token>")
             ELSE CallOf("verify_purchase", At(argv, 2), At(argv, 3), At(argv, 4))
        [] action = "cancel" ->
             IF Len(argv) # 5
             THEN UsageError("Usage: verify_google_purchase.py cancel <package_name> <product_id> <purchase_token>")
             ELSE CallOf("cancel_subscription", At(argv, 2), At(argv, 3), At(argv, 4))
        [] action = "acknowledge" ->
             IF Len(argv) # 6
             THEN UsageError("Usage: verify_google_purchase.py acknowledge <type> <package_name> <product_id> <purchase_token>")
             ELSE LET ack_type == At(argv, 2) IN
               CASE ack_type = "subscription" ->
                      CallOf("acknowledge_subscription", At(argv, 3), At(argv, 4), At(argv, 5))
                 [] ack_type = "product" ->
                      CallOf("acknowledge_product", At(argv, 3), At(argv, 4), At(argv, 5))
                 [] OTHER ->
                      UsageError("Unknown acknowledge type: " \o ack_type \o ". Use 'subscription' or 'product'.")
        [] OTHER -> BackwardCompat(argv)

\* ExceptionResult without the type name of the exception.
ExceptionResult_noType(e) ==
    [success |-> FALSE, error |-> e.msg]

\* except Exception as e: the failure result of every action function.
ExceptionResult(e) ==
    [success |-> FALSE, error |-> e.msg, errorType |-> e.exc]

\* VerifySubscriptionBranch reporting a subscription as a one-time product.
VerifySubscriptionBranch_notSubscription(response) ==
    CASE response.status = 200 ->
           IF JsonDecodes(response.text)
           THEN [fallback |-> FALSE,
                 result |-> [success |-> TRUE, isSubscription |-> FALSE,
                             data |-> JsonValue(response.text)]]
           ELSE [fallback |-> FALSE,
                 result |-> [success |-> FALSE, error |-> JSONDecodeError.msg,
                             errorType |-> JSONDecodeError.exc]]
      [] response.status = 404 ->
           [fallback |-> TRUE, result |-> Unbound]
      [] OTHER ->
           [fallback |-> FALSE,
            result |-> [success |-> FALSE,
                        error |-> "Subscription verification failed with status "
                                  \o ToString(response.status),
                        statusCode |-> response.status,
                        details |-> response.text]]

\* VerifySubscriptionBranch falling back to the product lookup on every
\* status other than 200.
VerifySubscriptionBranch_anyFailure(response) ==
    IF response.status = 200
    THEN IF JsonDecodes(response.text)
         THEN [fallback |-> FALSE,
               result |-> [success |-> TRUE, isSubscription |-> TRUE,
                           data |-> JsonValue(response.text)]]
         ELSE [fallback |-> FALSE,
               result |-> [success |-> FALSE, error |-> JSONDecodeError.msg,
                           errorType |-> JSONDecodeError.exc]]
    ELSE [fallback |-> TRUE, result |-> Unbound]

\* What verify_purchase does with the answer of the subscription lookup:
\* return a result, or go on to the product lookup.
VerifySubscriptionBranch(response) ==
    CASE response.status = 200 ->
           IF JsonDecodes(response.text)
           THEN [fallback |-> FALSE,
                 result |-> [success |-> TRUE, isSubscription |-> TRUE,
                             data |-> JsonValue(response.text)]]
           ELSE [fallback |-> FALSE, result |-> ExceptionResult(JSONDecodeError)]
      [] response.status = 404 ->
           [fallback |-> TRUE, result |-> Unbound]
      [] OTHER ->
           [fallback |-> FALSE,
            result |-> [success |-> FALSE,
                        error |-> "Subscription verification failed with status "
                                  \o ToString(response.status),
                        statusCode |-> response.status,
                        details |-> response.text]]

\* VerifyProductResult reporting the status that led to the fallback.
VerifyProductResult_firstStatus(response) ==
    IF response.status = 200
    THEN IF JsonDecodes(response.text)
         THEN [success |-> TRUE, isSubscription |-> FALSE,
               data |-> JsonValue(response.text)]
         ELSE [success |-> FALSE, error |-> JSONDecodeError.msg,
               errorType |-> JSONDecodeError.exc]
    ELSE [success |-> FALSE,
          error |-> "Product verification failed with status "
                    \o ToString(response.status),
          statusCode |-> 404,
          details |-> response.text]

\* What verify_purchase returns from the answer of the product lookup.
VerifyProductResult(response) ==
    IF response.status = 200
    THEN IF JsonDecodes(response.text)
         THEN [success |-> TRUE, isSubscription |-> FALSE,
               data |-> JsonValue(response.text)]
         ELSE ExceptionResult(JSONDecodeError)
    ELSE [success |-> FALSE,
          error |-> "Product verification failed with status "
                    \o ToString(response.status),
          statusCode |-> response.status,
          details |-> response.text]

\* PostResult accepting 204 only.
PostResult_only204(label, response) ==
    IF response.status = 204
    THEN [success |-> TRUE]
    ELSE [success |-> FALSE,
          error |-> label \o " failed with status " \o ToString(response.status),
          statusCode |-> response.status,
          details |-> response.text]

\* What cancel and the two acknowledge functions return from the answer of
\* their POST; label is "Cancel" or "Acknowledge".
PostResult(label, response) ==
    IF response.status \in {200, 204}
    THEN [success |-> TRUE]
    ELSE [success |-> FALSE,
          error |-> label \o " failed with status " \o ToString(response.status),
          statusCode |-> response.status,
          details |-> response.text]

\* ExitStatus ignoring the result.
ExitStatus_alwaysZero(res) == 0

\* sys.exit(0 if result["success"] else 1)
ExitStatus(res) == IF res.success THEN 0 ELSE 1

(***************************************************************************)
(* Requests                                                                *)
(***************************************************************************)
Request(method, url, headers, timeout) ==
    [method |-> method, url |-> url, headers |-> headers, timeout |-> timeout]

MetadataTokenUrl == <<"169.254.169.254", "latest", "api", "token">>

MetadataRegionUrl ==
    <<"169.254.169.254", "latest", "meta-data", "placement", "region">>

StsTokenUrl == <<"sts.googleapis.com", "v1", "token">>

PublisherUrl(a, kind, suffix) ==
    <<"androidpublisher.googleapis.com", "androidpublisher", "v3",
      "applications", a[1], "purchases", kind, a[2], "tokens", a[3] \o suffix>>

BearerHeaders(cred) ==
    <<"Authorization", "Bearer " \o cred, "Content-Type", "application/json">>

IsMetadata(req) == req.url[1] = "169.254.169.254"

IsPublisher(req) == req.url[1] = "androidpublisher.googleapis.com"

\* The answers the next call of invocation r may get: what the world already
\* answered at that position, or a fresh answer out of alphabet.
Answers(r, alphabet) ==
    IF Len(calls[r]) < Len(responses)
    THEN {responses[Len(calls[r]) + 1]}
    ELSE alphabet

Exchange(r, req, response) ==
    /\ calls' = [calls EXCEPT ![r] = Append(@, req)]
    /\ responses' = IF Len(calls[r]) < Len(responses)
                    THEN responses
                    ELSE Append(responses, response)

\* An exception inside the try block: the function returns the failure
\* result and the script goes on to print it.
Caught(r, e) ==
    /\ result' = [result EXCEPT ![r] = ExceptionResult(e)]
    /\ pc' = [pc EXCEPT ![r] = "print"]

Return(r, res) ==
    /\ result' = [result EXCEPT ![r] = res]
    /\ pc' = [pc EXCEPT ![r] = "print"]

\* The Publisher API call an action function makes once it has credentials.
FirstCall(f) ==
    CASE f = "verify_purchase" -> "get_subscription"
      [] f = "cancel_subscription" -> "post_cancel"
      [] f = "acknowledge_subscription" -> "post_acknowledge_subscription"
      [] f = "acknowledge_product" -> "post_acknowledge_product"

(***************************************************************************)
(* Initial states                                                          *)
(***************************************************************************)
Fresh(ids, argvs) ==
    /\ sys_argv = argvs
    /\ pc = [r \in ids |-> "main"]
    /\ func = [r \in ids |-> ""]
    /\ args = [r \in ids |-> <<>>]
    /\ token = [r \in ids |-> <<>>]
    /\ credentials = [r \in ids |-> ""]
    /\ environ = [r \in ids |-> {}]
    /\ calls = [r \in ids |-> <<>>]
    /\ responses = <<>>
    /\ result = [r \in ids |-> Unbound]
    /\ stdout = [r \in ids |-> <<>>]
    /\ exitCode = [r \in ids |-> -1]

\* One invocation with any argument list.
Init ==
    \E a \in ArgLists : Fresh({1}, [r \in {1} |-> <<ScriptName>> \o a])

(***************************************************************************)
(* Steps of an invocation                                                  *)
(***************************************************************************)
\* __main__: parse the arguments; print the usage error or enter the
\* action function.
Main(r) ==
    /\ pc[r] = "main"
    /\ LET d == main(sys_argv[r]) IN
         IF d.usage
         THEN /\ stdout' = [stdout EXCEPT ![r] =
                              Append(@, [success |-> FALSE, error |-> d.error])]
              /\ pc' = [pc EXCEPT ![r] = "usage_exit"]
              /\ UNCHANGED <<func, args>>
         ELSE /\ func' = [func EXCEPT ![r] = d.func]
              /\ args' = [args EXCEPT ![r] = d.args]
              /\ pc' = [pc EXCEPT ![r] = "put_token"]
              /\ UNCHANGED stdout
    /\ UNCHANGED <<sys_argv, token, credentials, environ, calls, responses,
                   result, exitCode>>

\* sys.exit(1) after a usage error.
UsageExit(r) ==
    /\ pc[r] = "usage_exit"
    /\ exitCode' = [exitCode EXCEPT ![r] = 1]
    /\ pc' = [pc EXCEPT ![r] = "exited"]
    /\ UNCHANGED <<sys_argv, func, args, token, credentials, environ, calls,
                   responses, result, stdout>>

\* _get_credentials: PUT for the metadata session token.  The status of the
\* response is not looked at; its body becomes the token.
PutToken(r) ==
    /\ pc[r] = "put_token"
    /\ \E response \in Answers(r, TokenResponses) :
         /\ Exchange(r, Request("PUT", MetadataTokenUrl,
                        <<"X-aws-ec2-metadata-token-ttl-seconds", "21600">>, 2),
                     response)
         /\ IF response.exc # ""
            THEN /\ Caught(r, response)
                 /\ UNCHANGED token
            ELSE /\ token' = [token EXCEPT ![r] = response.text]
                 /\ pc' = [pc EXCEPT ![r] = "get_region"]
                 /\ UNCHANGED result
    /\ UNCHANGED <<sys_argv, func, args, credentials, environ, stdout, exitCode>>

\* _get_credentials: GET the region with the token, strip it, and write it
\* to AWS_REGION and AWS_DEFAULT_REGION.  The status is not looked at.
GetRegion(r) ==
    /\ pc[r] = "get_region"
    /\ \E response \in Answers(r, RegionResponses) :
         /\ Exchange(r, Request("GET", MetadataRegionUrl,
                        <<"X-aws-ec2-metadata-token">> \o token[r], 2),
                     response)
         /\ IF response.exc # ""
            THEN /\ Caught(r, response)
                 /\ UNCHANGED environ
            ELSE /\ environ' = [environ EXCEPT ![r] =
                       {<<"AWS_REGION", Strip(response.text)>>,
                        <<"AWS_DEFAULT_REGION", Strip(response.text)>>}]
                 /\ pc' = [pc EXCEPT ![r] = "refresh"]
                 /\ UNCHANGED result
    /\ UNCHANGED <<sys_argv, func, args, token, credentials, stdout, exitCode>>

\* Refresh going on to the Publisher API call although the exchange raised.
Refresh_swallow(r) ==
    /\ pc[r] = "refresh"
    /\ \E response \in Answers(r, RefreshResponses) :
         /\ Exchange(r, Request("POST", StsTokenUrl,
                        <<"scope", "androidpublisher">>, 0),
                     response)
         /\ credentials' = [credentials EXCEPT ![r] =
                              IF response.exc # "" THEN @ ELSE response.text[1]]
         /\ pc' = [pc EXCEPT ![r] = FirstCall(func[r])]
         /\ UNCHANGED result
    /\ UNCHANGED <<sys_argv, func, args, token, environ, stdout, exitCode>>

\* _get_credentials: build the external-account credentials and refresh
\* them; the exchange itself is the auth library's.
Refresh(r) ==
    /\ pc[r] = "refresh"
    /\ \E response \in Answers(r, RefreshResponses) :
         /\ Exchange(r, Request("POST", StsTokenUrl,
                        <<"scope", "androidpublisher">>, 0),
                     response)
         /\ IF response.exc # ""
            THEN /\ Caught(r, response)
                 /\ UNCHANGED credentials
            ELSE /\ credentials' = [credentials EXCEPT ![r] = response.text[1]]
                 /\ pc' = [pc EXCEPT ![r] = FirstCall(func[r])]
                 /\ UNCHANGED result
    /\ UNCHANGED <<sys_argv, func, args, token, environ, stdout, exitCode>>

\* print(json.dumps(result))
EmitResult(r) ==
    /\ pc[r] = "print"
    /\ stdout' = [stdout EXCEPT ![r] = Append(@, result[r])]
    /\ pc' = [pc EXCEPT ![r] = "sys_exit"]
    /\ UNCHANGED <<sys_argv, func, args, token, credentials, environ, calls,
                   responses, result, exitCode>>

\* sys.exit(0 if result["success"] else 1)
Exit(r) ==
    /\ pc[r] = "sys_exit"
    /\ exitCode' = [exitCode EXCEPT ![r] = ExitStatus(result[r])]
    /\ pc' = [pc EXCEPT ![r] = "exited"]
    /\ UNCHANGED <<sys_argv, func, args, token, credentials, environ, calls,
                   responses, result, stdout>>

\* verify_purchase: GET the subscription purchase; 200 returns it, 404 goes
\* on to the product lookup, anything else is a failure.
GetSubscription(r) ==
    /\ pc[r] = "get_subscription"
    /\ \E response \in Answers(r, LookupResponses) :
         /\ Exchange(r, Request("GET", PublisherUrl(args[r], "subscriptions", ""),
                        BearerHeaders(credentials[r]), 10),
                     response)
         /\ IF response.exc # ""
            THEN Caught(r, response)
            ELSE LET b == VerifySubscriptionBranch(response) IN
                 IF b.fallback
                 THEN /\ pc' = [pc EXCEPT ![r] = "get_product"]
                      /\ UNCHANGED result
                 ELSE Return(r, b.result)
    /\ UNCHANGED <<sys_argv, func, args, token, credentials, environ, stdout,
                   exitCode>>

\* verify_purchase: GET the one-time product purchase.
GetProduct(r) ==
    /\ pc[r] = "get_product"
    /\ \E response \in Answers(r, LookupResponses) :
         /\ Exchange(r, Request("GET", PublisherUrl(args[r], "products", ""),
                        BearerHeaders(credentials[r]), 10),
                     response)
         /\ IF response.exc # ""
            THEN Caught(r, response)
            ELSE Return(r, VerifyProductResult(response))
    /\ UNCHANGED <<sys_argv, func, args, token, credentials, environ, stdout,
                   exitCode>>

\* The single POST of cancel_subscription and of the acknowledge functions.
Post(r, kind, suffix, label) ==
    /\ \E response \in Answers(r, PostResponses) :
         /\ Exchange(r, Request("POST", PublisherUrl(args[r], kind, suffix),
                        BearerHeaders(credentials[r]), 10),
                     response)
         /\ IF response.exc # ""
            THEN Caught(r, response)
            ELSE Return(r, PostResult(label, response))
    /\ UNCHANGED <<sys_argv, func, args, token, credentials, environ, stdout,
                   exitCode>>

AcknowledgeSubscription(r) ==
    /\ pc[r] = "post_acknowledge_subscription"
    /\ Post(r, "subscriptions", ":acknowledge", "Acknowledge")

AcknowledgeProduct(r) ==
    /\ pc[r] = "post_acknowledge_product"
    /\ Post(r, "products", ":acknowledge", "Acknowledge")

CancelSubscription(r) ==
    /\ pc[r] = "post_cancel"
    /\ Post(r, "subscriptions", ":cancel", "Cancel")

(***************************************************************************)
(* Specifications                                                          *)
(***************************************************************************)
Step(r) ==
    \/ Main(r)
    \/ UsageExit(r)
    \/ PutToken(r)
    \/ GetRegion(r)
    \/ Refresh(r)
    \/ GetSubscription(r)
    \/ GetProduct(r)
    \/ AcknowledgeSubscription(r)
    \/ AcknowledgeProduct(r)
    \/ CancelSubscription(r)
    \/ EmitResult(r)
    \/ Exit(r)

Next ==
    \/ \E r \in DOMAIN pc : Main(r)
    \/ \E r \in DOMAIN pc : UsageExit(r)
    \/ \E r \in DOMAIN pc : PutToken(r)
    \/ \E r \in DOMAIN pc : GetRegion(r)
    \/ \E r \in DOMAIN pc : Refresh(r)
    \/ \E r \in DOMAIN pc : GetSubscription(r)
    \/ \E r \in DOMAIN pc : GetProduct(r)
    \/ \E r \in DOMAIN pc : AcknowledgeSubscription(r)
    \/ \E r \in DOMAIN pc : AcknowledgeProduct(r)
    \/ \E r \in DOMAIN pc : CancelSubscription(r)
    \/ \E r \in DOMAIN pc : EmitResult(r)
    \/ \E r \in DOMAIN pc : Exit(r)

Spec == Init /\ [][Next]_vars

\* Two invocations by the same caller: the second passes the arguments of
\* the first behind the word verify, and is started once the first has
\* exited.  Its calls get the answers the first one got, position by
\* position, and fresh answers beyond.
InitPair ==
    \E a \in ArgLists :
        Fresh({1, 2}, [r \in {1, 2} |->
                         IF r = 1 THEN <<ScriptName>> \o a
                                  ELSE <<ScriptName, "verify">> \o a])

\* Invocation 2 runs once invocation 1 has exited.
Turn(r) == r = 2 => pc[1] = "exited"

NextPair ==
    \/ \E r \in DOMAIN pc : Turn(r) /\ Main(r)
    \/ \E r \in DOMAIN pc : Turn(r) /\ UsageExit(r)
    \/ \E r \in DOMAIN pc : Turn(r) /\ PutToken(r)
    \/ \E r \in DOMAIN pc : Turn(r) /\ GetRegion(r)
    \/ \E r \in DOMAIN pc : Turn(r) /\ Refresh(r)
    \/ \E r \in DOMAIN pc : Turn(r) /\ GetSubscription(r)
    \/ \E r \in DOMAIN pc : Turn(r) /\ GetProduct(r)
    \/ \E r \in DOMAIN pc : Turn(r) /\ AcknowledgeSubscription(r)
    \/ \E r \in DOMAIN pc : Turn(r) /\ AcknowledgeProduct(r)
    \/ \E r \in DOMAIN pc : Turn(r) /\ CancelSubscription(r)
    \/ \E r \in DOMAIN pc : Turn(r) /\ EmitResult(r)
    \/ \E r \in DOMAIN pc : Turn(r) /\ Exit(r)

SpecPair == InitPair /\ [][NextPair]_vars

Exited(r) == pc[r] = "exited"

(***************************************************************************)
(* Vocabulary of the properties                                            *)
(***************************************************************************)
Invocations == DOMAIN pc

Keywords == {"verify", "cancel", "acknowledge"}

\* The four documented invocation shapes.
LegacyForm(argv) == Len(argv) = 4 /\ argv[2] \notin Keywords

WellFormed(argv) ==
    \/ LegacyForm(argv)
    \/ Len(argv) = 5 /\ argv[2] \in {"verify", "cancel"}
    \/ Len(argv) = 6 /\ argv[2] = "acknowledge"
                     /\ argv[3] \in {"subscription", "product"}

\* The action function has returned its result.
Returned(r) == pc[r] \in {"print", "sys_exit", "exited"}

\* The answer to the k-th call of invocation r.
Answer(r, k) == responses[k]

Raised(r, k) == Answer(r, k).exc # ""

CallIdx(r) == 1..Len(calls[r])

MetadataIdx(r) == {k \in CallIdx(r) : IsMetadata(calls[r][k])}

PublisherIdx(r) == {k \in CallIdx(r) : IsPublisher(calls[r][k])}

LookupIdx(r, kind) ==
    {k \in PublisherIdx(r) : calls[r][k].method = "GET" /\ calls[r][k].url[7] = kind}

PostIdx(r) == {k \in PublisherIdx(r) : calls[r][k].method = "POST"}

IsUsageFailure(obj) == DOMAIN obj = {"success", "error"} /\ ~obj.success

(***************************************************************************)
(* C1                                                                      *)
(***************************************************************************)
\* C1: every invocation, whatever its arguments and whatever the outside
\* world answers or raises, has written exactly one result object to standard
\* output when it exits, never more than one before, exits with 0 or 1, and
\* exits with 0 exactly when the success field of that object is true; an
\* invocation that has not exited can always take its next step.
C1_OneResultExitMatchesSuccess ==
    \A r \in Invocations :
        /\ Len(stdout[r]) <= 1
        /\ ~Exited(r) => exitCode[r] = -1 /\ ENABLED Step(r)
        /\ Exited(r) =>
             /\ Len(stdout[r]) = 1
             /\ "success" \in DOMAIN stdout[r][1]
             /\ exitCode[r] \in {0, 1}
             /\ exitCode[r] = 0 <=> stdout[r][1].success

\* An invocation whose Publisher API call raised has exited with 1 after
\* printing the failure.
C1_Witness ==
    \E r \in Invocations :
        /\ Exited(r)
        /\ \E k \in PublisherIdx(r) : Raised(r, k)
        /\ stdout[r] = <<result[r]>>
        /\ ~result[r].success
        /\ exitCode[r] = 1

(***************************************************************************)
(* C2                                                                      *)
(***************************************************************************)
\* C2: an invocation whose arguments match none of the documented shapes
\* (no argument, an unknown action with other than three arguments, a wrong
\* argument count for verify, cancel or acknowledge, an unknown acknowledge
\* type) never makes a call, prints a failure object holding only success
\* and error, and exits with 1.
C2_MalformedNoNetwork ==
    \A r \in Invocations :
        ~WellFormed(sys_argv[r]) =>
            /\ calls[r] = <<>>
            /\ func[r] = ""
            /\ pc[r] \in {"main", "usage_exit", "exited"}
            /\ pc[r] # "main" => Len(stdout[r]) = 1 /\ IsUsageFailure(stdout[r][1])
            /\ Exited(r) => exitCode[r] = 1

\* acknowledge with an unknown type and the right argument count has exited.
C2_Witness ==
    \E r \in Invocations :
        /\ Exited(r)
        /\ Len(sys_argv[r]) = 6
        /\ sys_argv[r][2] = "acknowledge"
        /\ sys_argv[r][3] \notin {"subscription", "product"}
        /\ calls[r] = <<>>
        /\ exitCode[r] = 1

(***************************************************************************)
(* C3                                                                      *)
(***************************************************************************)
\* C3: in verify, when the subscription lookup and the product lookup both
\* returned a status other than 200, the result is a failure whose
\* statusCode is the status of the product lookup, and that is what is
\* printed.
C3_BothFailStatusOfProduct ==
    \A r \in Invocations :
        \A i \in LookupIdx(r, "subscriptions"), j \in LookupIdx(r, "products") :
            ( /\ ~Raised(r, i) /\ Answer(r, i).status # 200
              /\ ~Raised(r, j) /\ Answer(r, j).status # 200 ) =>
                /\ Returned(r)
                /\ ~result[r].success
                /\ "statusCode" \in DOMAIN result[r]
                /\ result[r].statusCode = Answer(r, j).status
                /\ Exited(r) => stdout[r] = <<result[r]>> /\ exitCode[r] = 1

\* Subscription lookup answered 404, product lookup 500, and 500 is reported.
C3_Witness ==
    \E r \in Invocations :
        \E i \in LookupIdx(r, "subscriptions"), j \in LookupIdx(r, "products") :
            /\ Exited(r)
            /\ Answer(r, i).status = 404
            /\ Answer(r, j).status = 500
            /\ stdout[r][1].statusCode = 500

(***************************************************************************)
(* C4                                                                      *)
(***************************************************************************)
\* The result verify returns for a subscription answer.
SubscriptionSuccess(response) ==
    [success |-> TRUE, isSubscription |-> TRUE, data |-> JsonValue(response.text)]

\* C4 as stated: in verify, once the subscription lookup has returned 200,
\* the result is the success object with isSubscription true and the body
\* as data, the product lookup is never called and the exit code is 0.
C4_Original ==
    \A r \in Invocations :
        \A i \in LookupIdx(r, "subscriptions") :
            (~Raised(r, i) /\ Answer(r, i).status = 200) =>
                /\ Returned(r)
                /\ result[r] = SubscriptionSuccess(Answer(r, i))
                /\ LookupIdx(r, "products") = {}
                /\ Exited(r) => stdout[r] = <<result[r]>> /\ exitCode[r] = 0

\* C4 (amended): in verify, once the subscription lookup has returned 200
\* the product lookup is never called; when moreover the body decodes as
\* JSON, the result is the success object with isSubscription true and the
\* decoded body as data, it is what is printed, and the exit code is 0.
C4_SubscriptionOk ==
    \A r \in Invocations :
        \A i \in LookupIdx(r, "subscriptions") :
            (~Raised(r, i) /\ Answer(r, i).status = 200) =>
                /\ Returned(r)
                /\ LookupIdx(r, "products") = {}
                /\ JsonDecodes(Answer(r, i).text) =>
                     /\ result[r] = SubscriptionSuccess(Answer(r, i))
                     /\ Exited(r) => stdout[r] = <<result[r]>> /\ exitCode[r] = 0

\* An explicit verify got 200 with a JSON body and exited with 0.
C4_Witness ==
    \E r \in Invocations :
        \E i \in LookupIdx(r, "subscriptions") :
            /\ Exited(r)
            /\ Answer(r, i).status = 200
            /\ JsonDecodes(Answer(r, i).text)
            /\ stdout[r][1].data = {"orderId"}
            /\ exitCode[r] = 0

(***************************************************************************)
(* C5                                                                      *)
(***************************************************************************)
ProductSuccess(response) ==
    [success |-> TRUE, isSubscription |-> FALSE, data |-> JsonValue(response.text)]

\* The product lookup is the call right after a subscription lookup that
\* returned 404.
ProductOnlyAfter404(r) ==
    \A j \in LookupIdx(r, "products") :
        /\ j - 1 \in LookupIdx(r, "subscriptions")
        /\ ~Raised(r, j - 1)
        /\ Answer(r, j - 1).status = 404

\* C5 as stated: in verify, when the subscription lookup returned 404 and
\* the product lookup then returned 200, the result is the success object
\* with isSubscription false and the product body as data; a product lookup
\* is only ever issued right after a 404 of the subscription lookup.
C5_Original ==
    \A r \in Invocations :
        /\ ProductOnlyAfter404(r)
        /\ \A j \in LookupIdx(r, "products") :
             (~Raised(r, j) /\ Answer(r, j).status = 200) =>
                 /\ Returned(r)
                 /\ result[r] = ProductSuccess(Answer(r, j))

\* C5 (amended): as stated, for a product lookup that returned 200 with a
\* body that decodes as JSON; data is the decoded body.
C5_ProductFallback ==
    \A r \in Invocations :
        /\ ProductOnlyAfter404(r)
        /\ \A j \in LookupIdx(r, "products") :
             (~Raised(r, j) /\ Answer(r, j).status = 200) =>
                 /\ Returned(r)
                 /\ JsonDecodes(Answer(r, j).text) =>
                      /\ result[r] = ProductSuccess(Answer(r, j))
                      /\ Exited(r) => stdout[r] = <<result[r]>> /\ exitCode[r] = 0

\* 404 from the subscription lookup, then 200 with a JSON body from the
\* product lookup, printed as a one-time product.
C5_Witness ==
    \E r \in Invocations :
        \E j \in LookupIdx(r, "products") :
            /\ Exited(r)
            /\ Answer(r, j - 1).status = 404
            /\ Answer(r, j).status = 200
            /\ JsonDecodes(Answer(r, j).text)
            /\ stdout[r][1].isSubscription = FALSE
            /\ stdout[r][1].data = {"orderId"}

(***************************************************************************)
(* C6                                                                      *)
(***************************************************************************)
\* C6: for cancel and both acknowledge functions, a POST that returned 200
\* or 204 gives the result {success: true} and nothing else; a POST that
\* returned any other status gives a failure with that status as statusCode
\* and the response body as details.
C6_PostResultShape ==
    \A r \in Invocations :
        \A k \in PostIdx(r) :
            ~Raised(r, k) =>
                /\ func[r] \in {"cancel_subscription", "acknowledge_subscription",
                                "acknowledge_product"}
                /\ Returned(r)
                /\ IF Answer(r, k).status \in {200, 204}
                   THEN /\ DOMAIN result[r] = {"success"}
                        /\ result[r].success
                   ELSE /\ DOMAIN result[r] =
                              {"success", "error", "statusCode", "details"}
                        /\ ~result[r].success
                        /\ result[r].statusCode = Answer(r, k).status
                        /\ result[r].details = Answer(r, k).text
                /\ Exited(r) => stdout[r] = <<result[r]>>

\* An acknowledge of a product got 204 and printed {success: true}.
C6_Witness ==
    \E r \in Invocations :
        \E k \in PostIdx(r) :
            /\ Exited(r)
            /\ func[r] = "acknowledge_product"
            /\ Answer(r, k).status = 204
            /\ stdout[r] = <<[success |-> TRUE]>>
            /\ exitCode[r] = 0

(***************************************************************************)
(* C7  (checked under SpecPair)                                            *)
(***************************************************************************)
\* C7: when invocation 1 has three arguments of which the first is not an
\* action keyword, and invocation 2 has the same three behind verify, and
\* both got the same answers, then once both have exited they have made the
\* same calls, printed the same object and exited with the same code.
C7_LegacyEqualsVerify ==
    ( /\ LegacyForm(sys_argv[1])
      /\ sys_argv[2] = <<ScriptName, "verify">> \o Tail(sys_argv[1])
      /\ Exited(1) /\ Exited(2) ) =>
        /\ calls[1] = calls[2]
        /\ stdout[1] = stdout[2]
        /\ exitCode[1] = exitCode[2]

\* Both forms went through the product lookup with three distinct
\* arguments and exited with 0.
C7_Witness ==
    /\ LegacyForm(sys_argv[1])
    /\ Cardinality({sys_argv[1][n] : n \in 2..4}) = 3
    /\ Exited(1) /\ Exited(2)
    /\ LookupIdx(1, "products") # {}
    /\ LookupIdx(2, "products") # {}
    /\ exitCode[2] = 0

(***************************************************************************)
(* C8                                                                      *)
(***************************************************************************)
\* C8: for well-formed arguments, when the metadata token request or the
\* metadata region request raises, no Publisher API call is made, the
\* function returns a failure with a non-empty errorType, and the invocation
\* goes on to print it and exit with 1.
C8_MetadataUnreachable ==
    \A r \in Invocations :
        (WellFormed(sys_argv[r]) /\ \E k \in MetadataIdx(r) : Raised(r, k)) =>
            /\ PublisherIdx(r) = {}
            /\ Returned(r)
            /\ ~result[r].success
            /\ "errorType" \in DOMAIN result[r]
            /\ result[r].errorType # ""
            /\ ~Exited(r) => ENABLED Step(r)
            /\ Exited(r) => stdout[r] = <<result[r]>> /\ exitCode[r] = 1

\* A cancel whose region request raised has exited with 1.
C8_Witness ==
    \E r \in Invocations :
        /\ func[r] = "cancel_subscription"
        /\ Len(calls[r]) = 2
        /\ Raised(r, 2)
        /\ Exited(r)
        /\ stdout[r][1].errorType = "ConnectionError"
        /\ exitCode[r] = 1

(***************************************************************************)
(* C9                                                                      *)
(***************************************************************************)
\* A status that is not a success, the 404 of verify's subscription lookup
\* aside.
NonSuccessStatus(r, k) ==
    /\ ~Raised(r, k)
    /\ Answer(r, k).status \notin 200..299
    /\ ~(k \in LookupIdx(r, "subscriptions") /\ Answer(r, k).status = 404)

FailedCall(r, k) == Raised(r, k) \/ NonSuccessStatus(r, k)

\* C9: an invocation makes at most two metadata calls and at most two
\* Publisher API calls in verify (one in cancel and acknowledge), requests no
\* endpoint twice, and a failed call (one that raised, or returned a
\* non-success status other than the 404 of verify's subscription lookup) is
\* its last call and makes the function return a failure.
C9_NothingRetried ==
    \A r \in Invocations :
        /\ Cardinality(MetadataIdx(r)) <= 2
        /\ Cardinality(PublisherIdx(r)) <=
               (IF func[r] = "verify_purchase" THEN 2 ELSE 1)
        /\ \A i, j \in CallIdx(r) :
               i # j => <<calls[r][i].method, calls[r][i].url>>
                        # <<calls[r][j].method, calls[r][j].url>>
        /\ \A k \in CallIdx(r) :
               FailedCall(r, k) =>
                   /\ k = Len(calls[r])
                   /\ Returned(r)
                   /\ ~result[r].success

(***************************************************************************)
(* C10                                                                     *)
(***************************************************************************)
IsTokenRequest(req) == req.method = "PUT" /\ req.url = MetadataTokenUrl

IsRegionRequest(req) == req.method = "GET" /\ req.url = MetadataRegionUrl

IsExchange(req) == req.url = StsTokenUrl

====
